---- MODULE Spec2Model ----
(***************************************************************************)
(* Transaction credit budgeting of fs/ext4/ext4_jbd2.h (ext4 snapshots).   *)
(*                                                                         *)
(* One transaction handle is followed through its life: start, extend,    *)
(* restart, the credit check, the sync/abort helpers and stop.  The ext4   *)
(* wrappers are translated from the header; the jbd2 journal behind them,  *)
(* __ext4_journal_start and __ext4_journal_stop have no body in the header *)
(* and follow the journal contract of the specification.                   *)
(***************************************************************************)
EXTENDS Integers, FiniteSets, Sequences, TLC

\* ------------------------------------------------------------------ bounds
\* largest operation count a caller passes to start / extend / restart /
\* has_enough_credits
MaxOps == 5
\* largest number of buffer credits the journal grants to one handle
MaxLog == 174
\* largest transaction id the model follows
MaxTid == 3
\* largest operation count the credit formulas are evaluated at
MaxCount == 12
\* largest number of quota types (MAXQUOTAS) a file system is built with
MaxQuotaTypes == 3

VARIABLES
    cfg,            \* build option and mount configuration, fixed per run
    handle,         \* numeric identity of the handle_t pointer, 0 before start
    h,              \* the fields of the handle_t the pointer refers to
    stopped,        \* the handle was given to stop
    journalAborted, \* the journal's log has failed
    lastOp,         \* the operation that ran last
    lastArg,        \* its nblocks / needed argument
    err,            \* its error result (start, extend, restart, stop)
    ret,            \* its int result (has_enough_credits, is_aborted)
    jcall,          \* the jbd2 call it made, if any
    calc            \* the last evaluation of a credit formula or data-mode test

vars == <<cfg, handle, h, stopped, journalAborted, lastOp, lastArg, err, ret, jcall,
          calc>>

OpCounts == 0..MaxOps

\* --------------------------------------------------------- credit formulas
EXT4_WRITE_CREDITS == 1
EXT4_ALLOC_CREDITS == 3
EXT4_COW_BITMAP_CREDITS == 3 * EXT4_ALLOC_CREDITS
Mut_COW_BLOCK_CREDITS_one_write == 3 * EXT4_ALLOC_CREDITS + EXT4_WRITE_CREDITS

EXT4_COW_BLOCK_CREDITS == 3 * EXT4_ALLOC_CREDITS + 2 * EXT4_WRITE_CREDITS
EXT4_COW_CREDITS == EXT4_COW_BLOCK_CREDITS + EXT4_COW_BITMAP_CREDITS
EXT4_SNAPSHOT_CREDITS == 3 * EXT4_WRITE_CREDITS

Mut_TRANS_BLOCKS_no_fixed(n) == n * (1 + EXT4_COW_CREDITS)

EXT4_SNAPSHOT_TRANS_BLOCKS(n) == n * (1 + EXT4_COW_CREDITS) + EXT4_SNAPSHOT_CREDITS

Mut_START_TRANS_BLOCKS_single(n) == n * (1 + EXT4_COW_CREDITS) + EXT4_SNAPSHOT_CREDITS

EXT4_SNAPSHOT_START_TRANS_BLOCKS(n) == n * (1 + EXT4_COW_CREDITS) + 2 * EXT4_SNAPSHOT_CREDITS

EXT4_SNAPSHOT_HAS_TRANS_BLOCKS(hd, n) ==
    /\ hd.h_buffer_credits >= EXT4_SNAPSHOT_TRANS_BLOCKS(n)
    /\ hd.h_user_credits >= n

\* ---------------------------------------------------------- handle validity
EXT4_NOJOURNAL_MAX_REF_COUNT == 4096

\* the address of a handle the journal allocated: the lowest valid identity
HandleAddr == EXT4_NOJOURNAL_MAX_REF_COUNT

\* the reference counts ext4 hands out as handles when there is no journal
NoJournalRefs == {1, EXT4_NOJOURNAL_MAX_REF_COUNT - 1}

Mut_handle_valid_off_by_one(p) ==
    IF p < EXT4_NOJOURNAL_MAX_REF_COUNT - 1 THEN 0 ELSE 1

ext4_handle_valid(p) == IF p < EXT4_NOJOURNAL_MAX_REF_COUNT THEN 0 ELSE 1

\* ------------------------------------------------------------------- state
\* a handle_t as the journal allocates it (zeroed)
NewHandle ==
    [h_buffer_credits |-> 0, h_user_credits |-> 0, h_base_credits |-> 0,
     h_sync |-> FALSE, h_aborted |-> FALSE, t_tid |-> 0]

NoCall == [op |-> "none", credits |-> 0]

NoCalc == [op |-> "none", in |-> 0, out |-> 0]

\* build with CONFIG_EXT4_FS_SNAPSHOT_JOURNAL_CREDITS or without; the snapshot
\* feature of the super block (only read in the credits build); journal or not
Configs ==
    {c \in [build : BOOLEAN, snapshots : BOOLEAN, journal : BOOLEAN] :
        c.snapshots => c.build}

EXT4_SNAPSHOTS == cfg.snapshots

\* the specification's lifecycle state of the handle
Lifecycle ==
    IF handle = 0 THEN "Unstarted"
    ELSE IF stopped THEN "Stopped"
    ELSE IF h.h_aborted THEN "Aborted"
    ELSE "Active"

Init ==
    /\ cfg \in Configs
    /\ handle = 0
    /\ h = NewHandle
    /\ stopped = FALSE
    /\ journalAborted = FALSE
    /\ lastOp = "none"
    /\ lastArg = 0
    /\ err = "Ok"
    /\ ret = 0
    /\ jcall = NoCall
    /\ calc = NoCalc

\* ------------------------------------------------- the journal collaborator
\* start(buffer_credits) -> Handle | Err(NoSpace, IOError)
jbd2_journal_start_results(credits) ==
    IF credits > MaxLog THEN {"NoSpace"} ELSE {"Ok", "NoSpace", "IOError"}

\* the handle the journal opens for `credits` buffer credits
jbd2_journal_start_handle(credits) ==
    [NewHandle EXCEPT !.h_buffer_credits = credits, !.t_tid = 1]

\* extend(Handle, buffer_credits) -> Ok | Err(WouldExceedJournalSize); a call on
\* an aborted handle fails with InvalidHandle
jbd2_journal_extend_results(hd, credits) ==
    IF hd.h_aborted THEN {"InvalidHandle"}
    ELSE IF hd.h_buffer_credits + credits > MaxLog THEN {"WouldExceedJournalSize"}
    ELSE {"Ok", "WouldExceedJournalSize"}

\* the handle after the journal answered e to extend(hd, credits)
jbd2_journal_extend_handle(hd, credits, e) ==
    IF e = "Ok"
    THEN [hd EXCEPT !.h_buffer_credits = hd.h_buffer_credits + credits]
    ELSE hd

\* restart(Handle, buffer_credits) -> Ok | Err(Abort)
jbd2_journal_restart_results(hd, credits) ==
    IF journalAborted \/ hd.h_aborted THEN {"JournalAbort"} ELSE {"Ok"}

\* the handle after the journal answered e to restart(hd, credits): a new
\* transaction with exactly the requested credits, or the handle marked aborted
jbd2_journal_restart_handle(hd, credits, e) ==
    IF e = "Ok"
    THEN [hd EXCEPT !.h_buffer_credits = credits, !.t_tid = hd.t_tid + 1]
    ELSE [hd EXCEPT !.h_aborted = TRUE]

is_handle_aborted(hd) == IF hd.h_aborted THEN 1 ELSE 0

\* the log fails under the file system
JournalLogFailure ==
    /\ ~stopped
    /\ ~journalAborted
    /\ journalAborted' = TRUE
    /\ lastOp' = "log_failure"
    /\ lastArg' = 0
    /\ err' = "Ok"
    /\ ret' = 0
    /\ jcall' = NoCall
    /\ UNCHANGED <<calc, cfg, handle, h, stopped>>

\* ------------------------------------------------------------------- start
\* the buffer credits start asks the journal for
start_credits(nblocks) ==
    IF EXT4_SNAPSHOTS THEN EXT4_SNAPSHOT_START_TRANS_BLOCKS(nblocks) ELSE nblocks

\* the handle start returns once the journal opened hd
start_update(hd, nblocks) ==
    IF EXT4_SNAPSHOTS
    THEN [hd EXCEPT !.h_base_credits = nblocks, !.h_user_credits = nblocks]
    ELSE hd

__ext4_journal_start(nblocks) ==
    /\ cfg.build
    /\ handle = 0
    /\ lastOp' = "start"
    /\ lastArg' = nblocks
    /\ ret' = 0
    /\ IF ~cfg.journal
       THEN /\ handle' \in NoJournalRefs
            /\ err' = "Ok"
            /\ jcall' = NoCall
            /\ UNCHANGED h
       ELSE LET credits == start_credits(nblocks) IN
            \E e \in jbd2_journal_start_results(credits) :
                /\ err' = e
                /\ jcall' = [op |-> "start", credits |-> credits]
                /\ handle' = IF e = "Ok" THEN HandleAddr ELSE 0
                /\ h' = IF e = "Ok"
                        THEN start_update(jbd2_journal_start_handle(credits), nblocks)
                        ELSE h
    /\ UNCHANGED <<calc, cfg, stopped, journalAborted>>

\* the build without the snapshot credits: nblocks goes to the journal as is
ext4_journal_start_sb(nblocks) ==
    /\ ~cfg.build
    /\ handle = 0
    /\ lastOp' = "start"
    /\ lastArg' = nblocks
    /\ ret' = 0
    /\ IF ~cfg.journal
       THEN /\ handle' \in NoJournalRefs
            /\ err' = "Ok"
            /\ jcall' = NoCall
            /\ UNCHANGED h
       ELSE \E e \in jbd2_journal_start_results(nblocks) :
                /\ err' = e
                /\ jcall' = [op |-> "start", credits |-> nblocks]
                /\ handle' = IF e = "Ok" THEN HandleAddr ELSE 0
                /\ h' = IF e = "Ok" THEN jbd2_journal_start_handle(nblocks) ELSE h
    /\ UNCHANGED <<calc, cfg, stopped, journalAborted>>

\* -------------------------------------------------------------------- stop
__ext4_journal_stop ==
    /\ handle # 0
    /\ ~stopped
    /\ stopped' = TRUE
    /\ lastOp' = "stop"
    /\ lastArg' = 0
    /\ err' = "Ok"
    /\ ret' = 0
    /\ jcall' = IF ext4_handle_valid(handle) = 1
                THEN [op |-> "stop", credits |-> 0]
                ELSE NoCall
    /\ UNCHANGED <<calc, cfg, handle, h, journalAborted>>

\* ------------------------------------------------------- sync/abort helpers
ext4_handle_sync ==
    /\ handle # 0
    /\ ~stopped
    /\ h' = IF ext4_handle_valid(handle) = 1 THEN [h EXCEPT !.h_sync = TRUE] ELSE h
    /\ lastOp' = "sync"
    /\ lastArg' = 0
    /\ err' = "Ok"
    /\ ret' = 0
    /\ jcall' = NoCall
    /\ UNCHANGED <<calc, cfg, handle, stopped, journalAborted>>

is_aborted_result(p, hd) ==
    IF ext4_handle_valid(p) = 1 THEN is_handle_aborted(hd) ELSE 0

ext4_handle_is_aborted ==
    /\ handle # 0
    /\ ~stopped
    /\ ret' = is_aborted_result(handle, h)
    /\ lastOp' = "is_aborted"
    /\ lastArg' = 0
    /\ err' = "Ok"
    /\ jcall' = NoCall
    /\ UNCHANGED <<calc, cfg, handle, h, stopped, journalAborted>>

\* ------------------------------------------------------------ credit check
Mut_has_enough_buffer_only(p, hd, needed) ==
    IF ext4_handle_valid(p) = 1 /\ hd.h_buffer_credits < needed THEN 0 ELSE 1

has_enough_credits_result(p, hd, needed) ==
    IF cfg.build
    THEN IF ext4_handle_valid(p) = 0 THEN 1
         ELSE IF EXT4_SNAPSHOTS
              THEN (IF EXT4_SNAPSHOT_HAS_TRANS_BLOCKS(hd, needed) THEN 1 ELSE 0)
              ELSE IF hd.h_buffer_credits < needed THEN 0 ELSE 1
    ELSE IF ext4_handle_valid(p) = 1 /\ hd.h_buffer_credits < needed THEN 0 ELSE 1

ext4_handle_has_enough_credits(needed) ==
    /\ handle # 0
    /\ ~stopped
    /\ ret' = has_enough_credits_result(handle, h, needed)
    /\ lastOp' = "has_enough_credits"
    /\ lastArg' = needed
    /\ err' = "Ok"
    /\ jcall' = NoCall
    /\ UNCHANGED <<calc, cfg, handle, h, stopped, journalAborted>>

\* ------------------------------------------------------------------ extend
\* the credits extend would ask the journal for
extend_credits(hd, nblocks) ==
    IF EXT4_SNAPSHOTS
    THEN EXT4_SNAPSHOT_TRANS_BLOCKS(hd.h_user_credits + nblocks) - hd.h_buffer_credits
    ELSE nblocks

Mut_extend_calls_journal_on_zero(credits) == credits >= 0

Mut_extend_always_calls_journal(credits) == TRUE

\* whether extend goes to the journal with them
extend_calls_journal(credits) == credits > 0

Mut_extend_update_ignores_err(hd, nblocks, e) ==
    IF EXT4_SNAPSHOTS
    THEN [hd EXCEPT !.h_base_credits = hd.h_base_credits + nblocks,
                    !.h_user_credits = hd.h_user_credits + nblocks]
    ELSE hd

Mut_extend_update_revives(hd, nblocks, e) ==
    IF e = "Ok"
    THEN [hd EXCEPT !.h_base_credits =
                        IF EXT4_SNAPSHOTS THEN hd.h_base_credits + nblocks
                        ELSE hd.h_base_credits,
                    !.h_user_credits =
                        IF EXT4_SNAPSHOTS THEN hd.h_user_credits + nblocks
                        ELSE hd.h_user_credits,
                    !.h_aborted = FALSE]
    ELSE hd

Mut_extend_update_new_transaction(hd, nblocks, e) ==
    IF EXT4_SNAPSHOTS /\ e = "Ok"
    THEN [hd EXCEPT !.h_base_credits = hd.h_base_credits + nblocks,
                    !.h_user_credits = hd.h_user_credits + nblocks,
                    !.t_tid = IF hd.t_tid < MaxTid THEN hd.t_tid + 1 ELSE hd.t_tid]
    ELSE hd

Mut_extend_update_user_only(hd, nblocks, e) ==
    IF EXT4_SNAPSHOTS /\ e = "Ok"
    THEN [hd EXCEPT !.h_user_credits = hd.h_user_credits + nblocks]
    ELSE hd

\* the base/user credits update after the journal answered e (0 without a call)
extend_update(hd, nblocks, e) ==
    IF EXT4_SNAPSHOTS /\ e = "Ok"
    THEN [hd EXCEPT !.h_base_credits = hd.h_base_credits + nblocks,
                    !.h_user_credits = hd.h_user_credits + nblocks]
    ELSE hd

__ext4_journal_extend(nblocks) ==
    /\ cfg.build
    /\ handle # 0
    /\ ~stopped
    /\ lastOp' = "extend"
    /\ lastArg' = nblocks
    /\ ret' = 0
    /\ IF ext4_handle_valid(handle) = 0
       THEN /\ err' = "Ok"
            /\ jcall' = NoCall
            /\ UNCHANGED h
       ELSE LET credits == extend_credits(h, nblocks) IN
            IF extend_calls_journal(credits)
            THEN \E e \in jbd2_journal_extend_results(h, credits) :
                    /\ err' = e
                    /\ jcall' = [op |-> "extend", credits |-> credits]
                    /\ h' = extend_update(jbd2_journal_extend_handle(h, credits, e),
                                          nblocks, e)
            ELSE /\ err' = "Ok"
                 /\ jcall' = NoCall
                 /\ h' = extend_update(h, nblocks, "Ok")
    /\ UNCHANGED <<calc, cfg, handle, stopped, journalAborted>>

\* the build without the snapshot credits
ext4_journal_extend(nblocks) ==
    /\ ~cfg.build
    /\ handle # 0
    /\ ~stopped
    /\ lastOp' = "extend"
    /\ lastArg' = nblocks
    /\ ret' = 0
    /\ IF ext4_handle_valid(handle) = 1
       THEN \E e \in jbd2_journal_extend_results(h, nblocks) :
                /\ err' = e
                /\ jcall' = [op |-> "extend", credits |-> nblocks]
                /\ h' = jbd2_journal_extend_handle(h, nblocks, e)
       ELSE /\ err' = "Ok"
            /\ jcall' = NoCall
            /\ UNCHANGED h
    /\ UNCHANGED <<calc, cfg, handle, stopped, journalAborted>>

\* ----------------------------------------------------------------- restart
Mut_restart_credits_plain(nblocks) == nblocks

\* the credits restart asks the journal for
restart_credits(nblocks) ==
    IF EXT4_SNAPSHOTS THEN EXT4_SNAPSHOT_START_TRANS_BLOCKS(nblocks) ELSE nblocks

Mut_restart_update_additive(hd, nblocks, e) ==
    IF EXT4_SNAPSHOTS /\ e = "Ok"
    THEN [hd EXCEPT !.h_base_credits = hd.h_base_credits + nblocks,
                    !.h_user_credits = hd.h_user_credits + nblocks]
    ELSE hd

Mut_restart_update_ignores_err(hd, nblocks, e) ==
    IF EXT4_SNAPSHOTS
    THEN [hd EXCEPT !.h_base_credits = nblocks, !.h_user_credits = nblocks]
    ELSE hd

Mut_restart_update_any_mode(hd, nblocks, e) ==
    IF e = "Ok"
    THEN [hd EXCEPT !.h_base_credits = nblocks, !.h_user_credits = nblocks]
    ELSE hd

\* the base/user credits reset after the journal answered e
restart_update(hd, nblocks, e) ==
    IF EXT4_SNAPSHOTS /\ e = "Ok"
    THEN [hd EXCEPT !.h_base_credits = nblocks, !.h_user_credits = nblocks]
    ELSE hd

__ext4_journal_restart(nblocks) ==
    /\ cfg.build
    /\ handle # 0
    /\ ~stopped
    /\ h.t_tid < MaxTid
    /\ lastOp' = "restart"
    /\ lastArg' = nblocks
    /\ ret' = 0
    /\ IF ext4_handle_valid(handle) = 0
       THEN /\ err' = "Ok"
            /\ jcall' = NoCall
            /\ UNCHANGED h
       ELSE LET credits == restart_credits(nblocks) IN
            \E e \in jbd2_journal_restart_results(h, credits) :
                /\ err' = e
                /\ jcall' = [op |-> "restart", credits |-> credits]
                /\ h' = restart_update(jbd2_journal_restart_handle(h, credits, e),
                                       nblocks, e)
    /\ UNCHANGED <<calc, cfg, handle, stopped, journalAborted>>

\* the build without the snapshot credits
ext4_journal_restart(nblocks) ==
    /\ ~cfg.build
    /\ handle # 0
    /\ ~stopped
    /\ h.t_tid < MaxTid
    /\ lastOp' = "restart"
    /\ lastArg' = nblocks
    /\ ret' = 0
    /\ IF ext4_handle_valid(handle) = 1
       THEN \E e \in jbd2_journal_restart_results(h, nblocks) :
                /\ err' = e
                /\ jcall' = [op |-> "restart", credits |-> nblocks]
                /\ h' = jbd2_journal_restart_handle(h, nblocks, e)
       ELSE /\ err' = "Ok"
            /\ jcall' = NoCall
            /\ UNCHANGED h
    /\ UNCHANGED <<calc, cfg, handle, stopped, journalAborted>>

\* ----------------------------------------------------------- specification
Next ==
    \/ \E n \in OpCounts : __ext4_journal_start(n)
    \/ \E n \in OpCounts : ext4_journal_start_sb(n)
    \/ \E n \in OpCounts : __ext4_journal_extend(n)
    \/ \E n \in OpCounts : ext4_journal_extend(n)
    \/ \E n \in OpCounts : __ext4_journal_restart(n)
    \/ \E n \in OpCounts : ext4_journal_restart(n)
    \/ \E n \in OpCounts : ext4_handle_has_enough_credits(n)
    \/ ext4_handle_sync
    \/ ext4_handle_is_aborted
    \/ __ext4_journal_stop
    \/ JournalLogFailure

Spec == Init /\ [][Next]_vars

TypeOK ==
    /\ cfg \in Configs
    /\ handle \in {0, HandleAddr} \cup NoJournalRefs
    /\ h.h_buffer_credits \in 0..MaxLog
    /\ h.h_user_credits \in Nat
    /\ h.h_base_credits \in Nat
    /\ h.t_tid \in 0..MaxTid

\* ------------------------------------------------------------ credit model
\* a super block as the credit macros read it: the extents feature, the build
\* with CONFIG_QUOTA, the QUOTA mount option and the number of quota types
SuperBlocks ==
    [extents : BOOLEAN, config_quota : BOOLEAN, quota_opt : BOOLEAN,
     maxquotas : 0..MaxQuotaTypes]

Mut_SINGLEDATA_swapped(sb) == IF sb.extents THEN 8 ELSE 27

EXT4_SINGLEDATA_TRANS_BLOCKS(sb) == IF sb.extents THEN 27 ELSE 8

EXT4_XATTR_TRANS_BLOCKS == 6

EXT4_QUOTA_TRANS_BLOCKS(sb) ==
    IF sb.config_quota THEN (IF sb.quota_opt THEN 1 ELSE 0) ELSE 0

EXT4_MAXQUOTAS_TRANS_BLOCKS(sb) == sb.maxquotas * EXT4_QUOTA_TRANS_BLOCKS(sb)

Mut_DATA_TRANS_BLOCKS_double_counted(sb) ==
    EXT4_SINGLEDATA_TRANS_BLOCKS(sb) + EXT4_XATTR_TRANS_BLOCKS
        + EXT4_MAXQUOTAS_TRANS_BLOCKS(sb)

EXT4_DATA_TRANS_BLOCKS(sb) ==
    EXT4_SINGLEDATA_TRANS_BLOCKS(sb) + EXT4_XATTR_TRANS_BLOCKS - 2
        + EXT4_MAXQUOTAS_TRANS_BLOCKS(sb)

EXT4_DELETE_TRANS_BLOCKS(sb) == 2 * EXT4_DATA_TRANS_BLOCKS(sb) + 64

\* evaluate the snapshot credit formulas for n operations
SnapshotCredits(n) ==
    /\ calc' = [op |-> "snapshot_credits",
                in |-> n,
                out |-> [cow |-> EXT4_COW_CREDITS,
                         trans |-> EXT4_SNAPSHOT_TRANS_BLOCKS(n),
                         start |-> EXT4_SNAPSHOT_START_TRANS_BLOCKS(n)]]
    /\ UNCHANGED <<cfg, handle, h, stopped, journalAborted, lastOp, lastArg, err,
                   ret, jcall>>

\* evaluate the data and delete transaction credits of a super block
DataCredits(sb) ==
    /\ calc' = [op |-> "data_credits",
                in |-> sb,
                out |-> [data |-> EXT4_DATA_TRANS_BLOCKS(sb),
                         delete |-> EXT4_DELETE_TRANS_BLOCKS(sb)]]
    /\ UNCHANGED <<cfg, handle, h, stopped, journalAborted, lastOp, lastArg, err,
                   ret, jcall>>

\* ---------------------------------------------------------------- data mode
\* an inode as the data-mode tests read it: whether its file system has a
\* journal, whether it is a regular file, the build with
\* CONFIG_EXT4_FS_SNAPSHOT, the snapshot feature of its super block, the
\* DATA_FLAGS mount option and the inode's EXT4_INODE_JOURNAL_DATA flag
DataModes == {"JOURNAL_DATA", "ORDERED_DATA", "WRITEBACK_DATA"}

Inodes ==
    [journal : BOOLEAN, isreg : BOOLEAN, config_snapshot : BOOLEAN,
     snapshots : BOOLEAN, data_flags : DataModes, journal_data : BOOLEAN]

ext4_should_journal_data(inode) ==
    IF ~inode.journal THEN 0
    ELSE IF ~inode.isreg THEN 1
    ELSE IF inode.config_snapshot /\ inode.snapshots THEN 0
    ELSE IF inode.data_flags = "JOURNAL_DATA" THEN 1
    ELSE IF inode.journal_data THEN 1
    ELSE 0

Mut_should_order_data_mount_first(inode) ==
    IF ~inode.journal THEN 0
    ELSE IF ~inode.isreg THEN 0
    ELSE IF inode.data_flags = "ORDERED_DATA" THEN 1
    ELSE IF inode.config_snapshot /\ inode.snapshots THEN 1
    ELSE IF inode.journal_data THEN 0
    ELSE 0

ext4_should_order_data(inode) ==
    IF ~inode.journal THEN 0
    ELSE IF ~inode.isreg THEN 0
    ELSE IF inode.config_snapshot /\ inode.snapshots THEN 1
    ELSE IF inode.journal_data THEN 0
    ELSE IF inode.data_flags = "ORDERED_DATA" THEN 1
    ELSE 0

ext4_should_writeback_data(inode) ==
    IF ~inode.journal THEN 1
    ELSE IF inode.config_snapshot /\ inode.snapshots THEN 0
    ELSE IF ~inode.isreg THEN 0
    ELSE IF inode.journal_data THEN 0
    ELSE IF inode.data_flags = "WRITEBACK_DATA" THEN 1
    ELSE 0

\* evaluate the three data-mode tests on one inode
DataMode(inode) ==
    /\ calc' = [op |-> "data_mode",
                in |-> inode,
                out |-> [journal |-> ext4_should_journal_data(inode),
                         order |-> ext4_should_order_data(inode),
                         writeback |-> ext4_should_writeback_data(inode)]]
    /\ UNCHANGED <<cfg, handle, h, stopped, journalAborted, lastOp, lastArg, err,
                   ret, jcall>>

\* the pure credit and data-mode functions, evaluated on every input
CreditInit ==
    /\ Init
    /\ cfg = [build |-> TRUE, snapshots |-> TRUE, journal |-> TRUE]

CreditNext ==
    \/ \E n \in 0..MaxCount : SnapshotCredits(n)
    \/ \E sb \in SuperBlocks : DataCredits(sb)
    \/ \E inode \in Inodes : DataMode(inode)

CreditSpec == CreditInit /\ [][CreditNext]_vars

\* ================================================================== claims
\* a handle the journal allocated (not a no-journal sentinel)
RealHandle == handle = HandleAddr

\* C1: with snapshots enabled, whenever a handle is Active its granted buffer
\* credits are at least 21 * user_credits + 3, after any start, successful or
\* refused extend and successful restart.
C1_BufferCoversUserCredits ==
    (cfg.snapshots /\ RealHandle /\ ~stopped /\ ~h.h_aborted)
        => h.h_buffer_credits >= 21 * h.h_user_credits + 3

\* C1 witness: an Active snapshot handle, restarted once and then extended
\* through the journal, whose buffer credits sit exactly on the bound.
C1_Witness ==
    /\ cfg.snapshots /\ RealHandle /\ ~stopped /\ ~h.h_aborted
    /\ lastOp = "extend" /\ err = "Ok" /\ jcall.op = "extend"
    /\ h.t_tid = 2
    /\ h.h_user_credits = 4
    /\ h.h_buffer_credits = 21 * 4 + 3

\* C2 (as claimed): the aborted flag is sticky, and every extend or restart on
\* an aborted handle reports an error and changes no credit field.
C2_AbortedHandleRejectsCreditOps ==
    [][ /\ (h.h_aborted => h'.h_aborted)
        /\ (RealHandle /\ h.h_aborted /\ lastOp' \in {"extend", "restart"})
            => /\ err' # "Ok"
               /\ h'.h_buffer_credits = h.h_buffer_credits
               /\ h'.h_user_credits = h.h_user_credits
               /\ h'.h_base_credits = h.h_base_credits ]_vars

\* C3 (as claimed): a restart on an aborted journal returns JournalAbort and
\* leaves the handle Aborted; from then on has_enough_credits returns false
\* for every needed, and stop still succeeds.
C3_AbortedHandleFailsCreditCheck ==
    /\ (RealHandle /\ lastOp = "restart" /\ journalAborted)
        => (err = "JournalAbort" /\ Lifecycle = "Aborted")
    /\ (RealHandle /\ h.h_aborted /\ lastOp = "has_enough_credits") => ret = 0
    /\ (RealHandle /\ h.h_aborted /\ lastOp = "stop") => (err = "Ok" /\ stopped)

\* C4: with snapshots enabled, extend(handle, extra_ops) on an Active handle
\* computes delta = 21*(user_credits+extra_ops)+3 - buffer_credits_granted, asks
\* the journal for exactly delta iff delta > 0, succeeds without a journal call
\* when delta <= 0, and on success adds extra_ops to user and base credits and
\* delta to the granted credits only if the journal was asked.
C4_SnapshotExtendDelta ==
    [][ (cfg.snapshots /\ RealHandle /\ ~h.h_aborted /\ lastOp' = "extend")
        => LET delta == 21 * (h.h_user_credits + lastArg') + 3 - h.h_buffer_credits
           IN  /\ (delta > 0) => jcall' = [op |-> "extend", credits |-> delta]
               /\ (delta <= 0) => (jcall' = NoCall /\ err' = "Ok")
               /\ (err' = "Ok")
                    => /\ h'.h_user_credits = h.h_user_credits + lastArg'
                       /\ h'.h_base_credits = h.h_base_credits + lastArg'
                       /\ h'.h_buffer_credits =
                            IF delta > 0 THEN h.h_buffer_credits + delta
                            ELSE h.h_buffer_credits ]_vars

\* C4 witness: start(5) then extend(+3): the journal was asked for 60 and the
\* handle has 8 user credits.
C4_Witness ==
    /\ cfg.snapshots /\ RealHandle /\ ~h.h_aborted
    /\ lastOp = "extend" /\ lastArg = 3 /\ err = "Ok"
    /\ jcall = [op |-> "extend", credits |-> 60]
    /\ h.h_user_credits = 8 /\ h.h_base_credits = 8
    /\ h.h_buffer_credits = 171

\* C5: no extend, successful or refused, in either snapshot mode and either
\* build, leaves the granted buffer credits lower than before the call.
C5_ExtendNeverDecreases ==
    [][ (lastOp' = "extend") => h'.h_buffer_credits >= h.h_buffer_credits ]_vars

\* C5 witness: a snapshot extend whose computed delta was negative (the handle
\* holds more than 21 * user_credits + 3) and that made no journal call.
C5_Witness ==
    /\ cfg.snapshots /\ RealHandle /\ ~h.h_aborted
    /\ lastOp = "extend" /\ err = "Ok" /\ jcall = NoCall
    /\ h.h_buffer_credits > 21 * h.h_user_credits + 3

\* C6: an extend the journal refuses with WouldExceedJournalSize returns that
\* error and leaves the handle as it was: Active, every field unchanged, so a
\* restart may follow.
C6_RefusedExtendLeavesHandle ==
    [][ (RealHandle /\ lastOp' = "extend" /\ err' = "WouldExceedJournalSize")
        => /\ h' = h
           /\ handle' = handle
           /\ ~h'.h_aborted /\ ~stopped' ]_vars

\* C6 witness: a snapshot handle with user credits whose extend by 2 was refused.
C6_Witness ==
    /\ cfg.snapshots /\ RealHandle /\ Lifecycle = "Active"
    /\ lastOp = "extend" /\ lastArg = 2 /\ err = "WouldExceedJournalSize"
    /\ jcall.op = "extend"
    /\ h.h_user_credits = 3

\* C7 (as claimed): restart(handle, n) on an Active handle asks the journal
\* for 21n+6 credits with snapshots enabled (never less than start(n) asks for)
\* and for n with snapshots disabled; on success user_credits and base_credits
\* both equal exactly n.  The handle fields exist in the credits build.
C7_RestartResetsUserCredits_AsClaimed ==
    [][ (RealHandle /\ ~h.h_aborted /\ lastOp' = "restart")
        => /\ jcall' = [op |-> "restart",
                        credits |-> IF cfg.snapshots THEN 21 * lastArg' + 6
                                    ELSE lastArg']
           /\ jcall'.credits >= start_credits(lastArg')
           /\ (cfg.build /\ err' = "Ok")
                => /\ h'.h_user_credits = lastArg'
                   /\ h'.h_base_credits = lastArg' ]_vars

\* C7 (amended): the same request; on success with snapshots enabled
\* user_credits and base_credits both equal exactly n whatever they were
\* before, and with snapshots disabled restart leaves both as they were.
C7_RestartResetsUserCredits ==
    [][ (RealHandle /\ ~h.h_aborted /\ lastOp' = "restart")
        => /\ jcall' = [op |-> "restart",
                        credits |-> IF cfg.snapshots THEN 21 * lastArg' + 6
                                    ELSE lastArg']
           /\ jcall'.credits >= start_credits(lastArg')
           /\ (cfg.snapshots /\ err' = "Ok")
                => /\ h'.h_user_credits = lastArg'
                   /\ h'.h_base_credits = lastArg'
           /\ (~cfg.snapshots /\ err' = "Ok")
                => /\ h'.h_user_credits = h.h_user_credits
                   /\ h'.h_base_credits = h.h_base_credits ]_vars

\* C7 witness: a snapshot handle restarted twice, last with n = 2: the journal
\* was asked for 48 and the handle holds exactly 2 user and base credits.
C7_Witness ==
    /\ cfg.snapshots /\ RealHandle /\ Lifecycle = "Active"
    /\ lastOp = "restart" /\ lastArg = 2 /\ err = "Ok"
    /\ jcall = [op |-> "restart", credits |-> 48]
    /\ h.t_tid = 3
    /\ h.h_user_credits = 2 /\ h.h_base_credits = 2
    /\ h.h_buffer_credits = 48

C10_InvalidHandleNoOps ==
    (handle > 0 /\ handle < 4096
        /\ lastOp \in {"has_enough_credits", "extend", "restart", "sync", "is_aborted"})
        => /\ h = NewHandle
           /\ jcall = NoCall
           /\ (lastOp = "has_enough_credits") => ret = 1
           /\ (lastOp \in {"extend", "restart"}) => err = "Ok"
           /\ (lastOp = "is_aborted") => ret = 0

\* C10 witness: the largest sentinel, 4095, was asked for 5 credits and had
\* enough.
C10_Witness ==
    /\ handle = 4095 /\ cfg.build
    /\ lastOp = "has_enough_credits" /\ lastArg = 5 /\ ret = 1
    /\ h = NewHandle

\* the lifecycle steps the specification allows
LifecycleSteps ==
    {<<"Unstarted", "Active">>, <<"Active", "Aborted">>,
     <<"Active", "Stopped">>, <<"Aborted", "Stopped">>}

C12_SnapshotCreditFormulas ==
    (calc.op = "snapshot_credits")
        => /\ calc.in \in 0..MaxCount
           /\ calc.out.cow = 20
           /\ calc.out.trans = 21 * calc.in + 3
           /\ calc.out.start = 21 * calc.in + 6
           /\ calc.out.start - calc.out.trans = 3

\* C12 witness: the formulas evaluated at n = 5: 108 and 111.
C12_Witness ==
    /\ calc.op = "snapshot_credits" /\ calc.in = 5
    /\ calc.out = [cow |-> 20, trans |-> 108, start |-> 111]

\* C13: for every file system configuration data_transaction_credits =
\* (27 with extents, else 8) + 6 - 2 + quota_type_count * quota_credits, which
\* is 12 without extents and quota and 31 with extents and without quota, and
\* delete_transaction_credits = 2 * data_transaction_credits + 64.
C13_DataTransactionCredits ==
    (calc.op = "data_credits")
        => LET sb == calc.in
               quota_on == sb.config_quota /\ sb.quota_opt
               quota_credits == IF quota_on THEN 1 ELSE 0
               single == IF sb.extents THEN 27 ELSE 8
           IN  /\ calc.out.data = single + 6 - 2 + sb.maxquotas * quota_credits
               /\ (~quota_on /\ ~sb.extents) => calc.out.data = 12
               /\ (~quota_on /\ sb.extents) => calc.out.data = 31
               /\ calc.out.delete = 2 * calc.out.data + 64

\* C13 witness: extents and quota on with two quota types: 33 data credits and
\* 130 delete credits.
C13_Witness ==
    /\ calc.op = "data_credits"
    /\ calc.in = [extents |-> TRUE, config_quota |-> TRUE, quota_opt |-> TRUE,
                  maxquotas |-> 2]
    /\ calc.out = [data |-> 33, delete |-> 130]

\* C20: for every inode and each of the three data journalling modes exactly
\* one of should_journal_data, should_order_data and should_writeback_data is
\* true; without a journal it is writeback, and with a journal and snapshots
\* enabled every regular file is ordered whatever the mount mode and the
\* inode's journal-data flag.
C20_ExactlyOneDataMode ==
    (calc.op = "data_mode")
        => LET inode == calc.in
               out == calc.out
           IN  /\ out.journal \in {0, 1}
               /\ out.order \in {0, 1}
               /\ out.writeback \in {0, 1}
               /\ out.journal + out.order + out.writeback = 1
               /\ (~inode.journal) => out.writeback = 1
               /\ (inode.journal /\ inode.config_snapshot /\ inode.snapshots
                     /\ inode.isreg) => out.order = 1

\* C20 witness: a regular file with the journal-data flag on a snapshot file
\* system mounted data=journal: ordered, neither journalled nor writeback.
C20_Witness ==
    /\ calc.op = "data_mode"
    /\ calc.in = [journal |-> TRUE, isreg |-> TRUE, config_snapshot |-> TRUE,
                  snapshots |-> TRUE, data_flags |-> "JOURNAL_DATA",
                  journal_data |-> TRUE]
    /\ calc.out = [journal |-> 0, order |-> 1, writeback |-> 0]

\* C14: a handle's transaction id is unchanged by every extend (successful,
\* refused, or satisfied without a journal call) and by has_enough_credits,
\* mark_sync and is_aborted; it changes only through a successful restart, and a
\* successful restart of a valid handle gives it a new transaction id.
C14_TransactionIdFrame ==
    [][ /\ (handle # 0 /\ lastOp' \in {"extend", "has_enough_credits",
                                        "sync", "is_aborted"})
             => h'.t_tid = h.t_tid
        /\ (handle # 0 /\ h'.t_tid # h.t_tid)
             => (lastOp' = "restart" /\ err' = "Ok" /\ jcall'.op = "restart")
        /\ (RealHandle /\ lastOp' = "restart" /\ err' = "Ok")
             => h'.t_tid # h.t_tid ]_vars

\* C14 witness: a snapshot handle restarted once (second transaction) and then
\* extended without a journal call: the extend kept the transaction id.
C14_Witness ==
    /\ cfg.snapshots /\ RealHandle /\ ~h.h_aborted
    /\ lastOp = "extend" /\ err = "Ok" /\ jcall = NoCall /\ lastArg = 0
    /\ h.t_tid = 2
    /\ h.h_user_credits = 1

\* C15: with snapshots disabled, extend(handle, extra_ops) on a valid Active
\* handle always calls the journal's extend with exactly extra_ops, zero
\* included, and returns the journal's result.
C15_PlainExtendDelegates ==
    [][ (~cfg.snapshots /\ RealHandle /\ Lifecycle = "Active" /\ lastOp' = "extend")
        => /\ jcall' = [op |-> "extend", credits |-> lastArg']
           /\ err' \in jbd2_journal_extend_results(h, lastArg') ]_vars

\* C16: right after a successful start(n) or restart(n) the credit check for n
\* passes, and right after a successful snapshot-mode extend the credit check
\* for the updated user credits passes, in both snapshot modes.
C16_EnoughCreditsAfterGrant ==
    [][ /\ (handle' # 0 /\ lastOp' \in {"start", "restart"} /\ err' = "Ok")
             => has_enough_credits_result(handle', h', lastArg') = 1
        /\ (RealHandle /\ cfg.snapshots /\ lastOp' = "extend" /\ err' = "Ok")
             => has_enough_credits_result(handle', h', h'.h_user_credits) = 1
        /\ (handle # 0 /\ lastOp \in {"start", "restart"} /\ err = "Ok"
              /\ lastOp' = "has_enough_credits" /\ lastArg' = lastArg)
             => ret' = 1
        /\ (RealHandle /\ cfg.snapshots /\ lastOp = "extend" /\ err = "Ok"
              /\ lastOp' = "has_enough_credits" /\ lastArg' = h.h_user_credits)
             => ret' = 1 ]_vars

\* C16 witness: a snapshot handle restarted for 5 operations and asked right
\* away whether it has the credits for 5: it has.
C16_Witness ==
    /\ cfg.snapshots /\ RealHandle /\ ~h.h_aborted
    /\ lastOp = "has_enough_credits" /\ lastArg = 5 /\ ret = 1
    /\ h.t_tid = 2
    /\ h.h_user_credits = 5
    /\ h.h_buffer_credits = EXT4_SNAPSHOT_START_TRANS_BLOCKS(5)

\* C17: with snapshots enabled an Active handle has base_credits equal to
\* user_credits in every reachable state.
C17_BaseEqualsUser ==
    (cfg.snapshots /\ RealHandle /\ Lifecycle = "Active")
        => h.h_base_credits = h.h_user_credits

\* C17 witness: a snapshot handle that was restarted, extended, and then
\* refused a further extend, with both counters at 6.
C17_Witness ==
    /\ cfg.snapshots /\ RealHandle /\ Lifecycle = "Active"
    /\ lastOp = "extend" /\ err = "WouldExceedJournalSize"
    /\ h.t_tid = 2
    /\ h.h_user_credits = 6 /\ h.h_base_credits = 6

\* C18: when the journal's restart fails, restart returns the journal's error
\* and leaves user_credits and base_credits as they were before the call.
C18_FailedRestartKeepsCredits ==
    [][ (RealHandle /\ lastOp' = "restart" /\ err' # "Ok")
        => /\ jcall'.op = "restart"
           /\ err' \in jbd2_journal_restart_results(h, jcall'.credits)
           /\ err' = "JournalAbort"
           /\ h'.h_user_credits = h.h_user_credits
           /\ h'.h_base_credits = h.h_base_credits ]_vars

\* C18 witness: a snapshot handle holding 5 user credits whose restart for 2
\* failed on an aborted journal: still 5.
C18_Witness ==
    /\ cfg.snapshots /\ RealHandle
    /\ lastOp = "restart" /\ lastArg = 2 /\ err = "JournalAbort"
    /\ h.h_aborted
    /\ h.h_user_credits = 5 /\ h.h_base_credits = 5

\* C19: with snapshots disabled no extend or restart, whatever its outcome,
\* changes user_credits or base_credits; extend and restart write them only
\* with snapshots enabled and after success.
C19_CreditsWrittenOnlyWithSnapshots ==
    [][ (handle # 0 /\ lastOp' \in {"extend", "restart"})
        => /\ (~cfg.snapshots)
                => /\ h'.h_user_credits = h.h_user_credits
                   /\ h'.h_base_credits = h.h_base_credits
           /\ (h'.h_user_credits # h.h_user_credits
                 \/ h'.h_base_credits # h.h_base_credits)
                => (cfg.snapshots /\ err' = "Ok") ]_vars

\* C19 witness: the credits build without the snapshot feature: a successful
\* restart for 3 got 3 buffer credits and left the user credits at 0.
C19_Witness ==
    /\ cfg.build /\ ~cfg.snapshots /\ RealHandle
    /\ lastOp = "restart" /\ lastArg = 3 /\ err = "Ok"
    /\ h.h_buffer_credits = 3
    /\ h.h_user_credits = 0 /\ h.h_base_credits = 0

====
